---- MODULE Spec2Model ----
(***************************************************************************)
(* Model of the upload-triggered verification pipeline of                  *)
(* droneforce-functions: functions/index.js (processLogFileUpload,         *)
(* sendToExternalSystem) and functions/blockchain-service.js               *)
(* (BlockchainService.extractTaskId, createMockTransaction, verifyTask).   *)
(*                                                                         *)
(* Strings the code inspects character by character (object paths, task    *)
(* ids) are sequences of one-character strings.  Every await of the code   *)
(* is a step boundary: the effect of a request on the task store happens   *)
(* in one step, the code that runs after the promise resolves in the next. *)
(***************************************************************************)
EXTENDS Naturals, Sequences, FiniteSets, TLC

VARIABLES
  tasks,           \* Firestore collection 'tasks': task id -> document
  file_hashes,     \* Firestore collection 'file_hashes': the records added
  objectMetadata,  \* custom metadata set on the storage objects
  tmpdir,          \* os.tmpdir(): file name -> content
  clock,           \* the time Date.now() and the server timestamp read
  ledger,          \* settlement transactions created by createMockTransaction
  updates,         \* the task updates the task store has applied, and for whom
  inv              \* per invocation: position and local variables

vars == <<tasks, file_hashes, objectMetadata, tmpdir, clock, ledger, updates, inv>>

\* ------------------------------------------------------------------ bounds

\* Number of invocations that may run concurrently.
NumInvocations == 2

Procs == 1..NumInvocations

\* ------------------------------------------------------------ values

\* An optional value (a field that may be undefined, a nullable result) is a
\* sequence of length 0 or 1.
Absent == <<>>
Some(v) == <<v>>

T1 == <<"T", "1">>
T2 == <<"T", "2">>
T9 == <<"T", "9">>

\* Ids of the documents the 'tasks' collection may hold.
TaskIds == {T1, T2}

Hashes == {"h1", "h2"}

\* ------------------------------------------------------- task documents

NoDoc ==
  [exists |-> FALSE, status |-> "", completedAt |-> Absent,
   verificationResult |-> Absent, verificationReportHash |-> Absent,
   verificationTimestamp |-> Absent, verificationTx |-> Absent]

PendingTask ==
  [exists |-> TRUE, status |-> "pending", completedAt |-> Absent,
   verificationResult |-> Absent, verificationReportHash |-> Absent,
   verificationTimestamp |-> Absent, verificationTx |-> Absent]

CompletedTask(at) == [PendingTask EXCEPT !.status = "completed", !.completedAt = Some(at)]

\* A completed task on which another writer has already set verificationResult.
PresetTask(at) == [CompletedTask(at) EXCEPT !.verificationResult = Some(FALSE)]

VerificationFields(doc) ==
  <<doc.verificationResult, doc.verificationReportHash,
    doc.verificationTimestamp, doc.verificationTx>>

\* db.collection('tasks').doc(taskId).get()
TaskGet(taskId) == IF taskId \in DOMAIN tasks THEN tasks[taskId] ELSE NoDoc

\* ------------------------------------------------------------- outcomes

MsgNoDb == "Firestore not initialized, cannot verify task"
MsgAlreadyVerified == "Task has already been verified"
MsgNotFound == "Error verifying task: Task not found"
MsgNotCompleted == "Error verifying task: Task must be completed before verification"
MsgStoreError == "Error verifying task: task store request failed"
MsgVerified == "Task verified successfully"
MsgNoTaskId == "Could not determine task ID for verification"

Failure(msg) == [success |-> FALSE, message |-> msg, transactionId |-> Absent]

\* Faulty variant: the success path reports a failure.
SuccessReportedAsFailure(tx) == [success |-> FALSE, message |-> MsgVerified, transactionId |-> Absent]

Success(tx) == [success |-> TRUE, message |-> MsgVerified, transactionId |-> Some(tx)]

\* admin is always passed to the constructor, so this.db is never null.
DbAvailable == TRUE

DEBUG_MODE == TRUE

\* ------------------------------------------------------ invocation state

Idle ==
  [pc |-> "idle", entry |-> "none", filePath |-> Absent, metadata |-> Absent,
   fileName |-> Absent, fileHash |-> Absent, queried |-> "no",
   taskId |-> Absent, verificationResult |-> Absent,
   verificationReportHash |-> Absent, transactionId |-> Absent,
   outcome |-> Absent, returned |-> Absent]

\* Where control goes when verifyTask / sendToExternalSystem has returned.
AfterVerification(p) == IF inv[p].entry = "processLogFileUpload" THEN "cleanup" ELSE "done"

\* verifyTask / sendToExternalSystem returns out; its arguments and locals go
\* out of scope.
Finish(p, out) ==
  inv' = [inv EXCEPT ![p].outcome = Some(out), ![p].pc = AfterVerification(p),
                     ![p].verificationResult = Absent,
                     ![p].verificationReportHash = Absent,
                     ![p].transactionId = Absent]

\* ------------------------------------------------------------ verifyTask

\* Faulty variant: the status check is left out.
NotCompletedSkipped(task) == FALSE

NotCompleted(task) == task.status # "completed"

AlreadyVerified(task) == task.verificationResult # Absent

\* The outcome of the checks verifyTask makes on the document it has read;
\* Absent when the task is eligible.
Gate(task) ==
  IF ~task.exists THEN Some(Failure(MsgNotFound))
  ELSE IF NotCompleted(task) THEN Some(Failure(MsgNotCompleted))
  ELSE IF AlreadyVerified(task) THEN Some(Failure(MsgAlreadyVerified))
  ELSE Absent

\* verifyTask(taskId, verificationResult, verificationReportHash), called directly.
CallVerifyTask(p, taskId, result, reportHash) ==
  /\ inv[p].pc = "idle"
  /\ inv' = [inv EXCEPT ![p] = [Idle EXCEPT !.pc = "vt_get", !.entry = "verifyTask",
                                  !.taskId = Some(taskId),
                                  !.verificationResult = Some(result),
                                  !.verificationReportHash = Some(reportHash)]]
  /\ UNCHANGED <<tasks, file_hashes, objectMetadata, tmpdir, clock, ledger, updates>>

\* await this.db.collection('tasks').doc(taskId).get(), and the checks on the result.
VerifyTaskGet(p) ==
  /\ inv[p].pc = "vt_get"
  /\ \/ DbAvailable /\ Finish(p, Failure(MsgStoreError))
     \/ LET task == TaskGet(inv[p].taskId[1]) IN
          IF ~DbAvailable THEN Finish(p, Failure(MsgNoDb))
          ELSE IF Gate(task) # Absent THEN Finish(p, Gate(task)[1])
          ELSE inv' = [inv EXCEPT ![p].pc = "vt_settle"]
  /\ UNCHANGED <<tasks, file_hashes, objectMetadata, tmpdir, clock, ledger, updates>>

RandomSuffixes == {"r1", "r2"}

\* `MOCK_TX_${Date.now()}_${Math.random()}`
MockTxId(now, rnd) == <<"MOCK_TX", now, rnd>>

\* transactionId = await this.createMockTransaction(...)
CreateMockTransaction(p) ==
  /\ inv[p].pc = "vt_settle"
  /\ \E rnd \in RandomSuffixes :
       LET tx == IF DEBUG_MODE THEN MockTxId(clock, rnd) ELSE <<"NOT_IMPLEMENTED_YET", 0, "">> IN
         /\ ledger' = ledger \cup {[tx |-> tx, by |-> p, taskId |-> inv[p].taskId[1]]}
         /\ inv' = [inv EXCEPT ![p].transactionId = Some(tx), ![p].pc = "vt_update"]
  /\ UNCHANGED <<tasks, file_hashes, objectMetadata, tmpdir, clock, updates>>

\* Faulty variant: the transaction id is left to a second write.
UpdatedTaskWithoutTx(task, result, reportHash, now, tx) ==
  [task EXCEPT !.status = IF result THEN "verified" ELSE "rejected",
               !.verificationResult = Some(result),
               !.verificationReportHash = Some(reportHash),
               !.verificationTimestamp = Some(now)]

\* The document after update({status, verificationResult, ...}).
UpdatedTask(task, result, reportHash, now, tx) ==
  [task EXCEPT !.status = IF result THEN "verified" ELSE "rejected",
               !.verificationResult = Some(result),
               !.verificationReportHash = Some(reportHash),
               !.verificationTimestamp = Some(now),
               !.verificationTx = Some(tx)]

\* Whether the task store applies the update: update() carries no precondition
\* on the document's fields, only that the document exists.
UpdateApplies(task) == task.exists

\* await this.db.collection('tasks').doc(taskId).update({...})
VerifyTaskUpdate(p) ==
  /\ inv[p].pc = "vt_update"
  /\ \/ /\ Finish(p, Failure(MsgStoreError))
        /\ UNCHANGED <<tasks, clock, updates>>
     \/ /\ UpdateApplies(TaskGet(inv[p].taskId[1]))
        /\ clock' = clock + 1
        /\ tasks' = [tasks EXCEPT ![inv[p].taskId[1]] =
                       UpdatedTask(@, inv[p].verificationResult[1],
                                   inv[p].verificationReportHash[1], clock,
                                   inv[p].transactionId[1])]
        /\ updates' = updates \cup {[by |-> p, taskId |-> inv[p].taskId[1]]}
        /\ inv' = [inv EXCEPT ![p].pc = "vt_return"]
  /\ UNCHANGED <<file_hashes, objectMetadata, tmpdir, ledger>>

\* return {success: true, ...} once the update has resolved.
VerifyTaskReturn(p) ==
  /\ inv[p].pc = "vt_return"
  /\ Finish(p, Success(inv[p].transactionId[1]))
  /\ UNCHANGED <<tasks, file_hashes, objectMetadata, tmpdir, clock, ledger, updates>>

\* --------------------------------------------------------- extractTaskId

LogsPrefix == <<"l", "o", "g", "s", "/">>

TaskPrefix == <<"t", "a", "s", "k", "-">>

Letters ==
  {"a", "b", "c", "d", "e", "f", "g", "h", "i", "j", "k", "l", "m",
   "n", "o", "p", "q", "r", "s", "t", "u", "v", "w", "x", "y", "z",
   "A", "B", "C", "D", "E", "F", "G", "H", "I", "J", "K", "L", "M",
   "N", "O", "P", "Q", "R", "S", "T", "U", "V", "W", "X", "Y", "Z"}

Digits == {"0", "1", "2", "3", "4", "5", "6", "7", "8", "9"}

\* [a-zA-Z0-9]
IsAlnum(c) == c \in Letters \cup Digits

\* String.prototype.startsWith
StartsWith(str, prefix) ==
  Len(str) >= Len(prefix) /\ SubSeq(str, 1, Len(prefix)) = prefix

\* Whether /task-([a-zA-Z0-9]+)/ matches str at position i.
MatchesAt(str, i) ==
  /\ i + Len(TaskPrefix) <= Len(str)
  /\ SubSeq(str, i, i + Len(TaskPrefix) - 1) = TaskPrefix
  /\ IsAlnum(str[i + Len(TaskPrefix)])

\* The last position of the run of alphanumerics that starts at position j.
RunEnd(str, j) ==
  CHOOSE k \in j..Len(str) :
    /\ \A m \in j..k : IsAlnum(str[m])
    /\ k = Len(str) \/ ~IsAlnum(str[k + 1])

\* filePath.match(/task-([a-zA-Z0-9]+)/): the group captured by the leftmost
\* match, Absent when there is no match.
TaskIdMatch(str) ==
  LET starts == {i \in 1..Len(str) : MatchesAt(str, i)} IN
    IF starts = {} THEN Absent
    ELSE LET i == CHOOSE x \in starts : \A y \in starts : x <= y
             j == i + Len(TaskPrefix)
         IN Some(SubSeq(str, j, RunEnd(str, j)))

\* if (metadata.taskId): undefined and the empty string are falsy.
HasTaskId(metadata) == metadata.taskId # Absent /\ metadata.taskId[1] # <<>>

\* Faulty variant: the path is tried before the metadata.
LocalTaskIdPathFirst(filePath, metadata) ==
  IF TaskIdMatch(filePath) # Absent THEN TaskIdMatch(filePath)
  ELSE IF HasTaskId(metadata) THEN metadata.taskId
  ELSE Absent

\* What extractTaskId returns before it turns to the task store: the metadata's
\* task id, else the task id in the path; Absent when there is neither.
LocalTaskId(filePath, metadata) ==
  IF HasTaskId(metadata) THEN metadata.taskId
  ELSE TaskIdMatch(filePath)

\* Faulty variant: the query orders by completedAt ascending.
LeastRecentCompleted ==
  LET completed == {t \in DOMAIN tasks :
                      tasks[t].status = "completed" /\ tasks[t].completedAt # Absent}
  IN {t \in completed :
        \A u \in completed : tasks[t].completedAt[1] <= tasks[u].completedAt[1]}

\* where('status', '==', 'completed').orderBy('completedAt', 'desc').limit(1):
\* the ids the query may return (one of them; none when the set is empty).
\* orderBy leaves out the documents without the field.
MostRecentCompleted ==
  LET completed == {t \in DOMAIN tasks :
                      tasks[t].status = "completed" /\ tasks[t].completedAt # Absent}
  IN {t \in completed :
        \A u \in completed : tasks[u].completedAt[1] <= tasks[t].completedAt[1]}

\* Faulty variant: the pipeline reports the verification as failed.
VerificationFailed == FALSE

\* const verificationResult = true, the result sendToExternalSystem passes to
\* verifyTask.
VerificationPassed == TRUE

\* Control after extractTaskId has returned taskId (Absent: null); queried says
\* whether it queried the task store ("no", "failed", "answered"): to the caller
\* of a direct call, else on in sendToExternalSystem, which gives up without a
\* task id and calls verifyTask(taskId, true, fileHash) with one.
Resolved(p, taskId, queried) ==
  IF inv[p].entry = "extractTaskId"
  THEN inv' = [inv EXCEPT ![p].taskId = taskId, ![p].queried = queried,
                          ![p].pc = "done"]
  ELSE IF taskId = Absent
  THEN inv' = [inv EXCEPT ![p].queried = queried,
                          ![p].outcome = Some(Failure(MsgNoTaskId)),
                          ![p].pc = AfterVerification(p)]
  ELSE inv' = [inv EXCEPT ![p].taskId = taskId, ![p].queried = queried,
                          ![p].verificationResult = Some(VerificationPassed),
                          ![p].verificationReportHash = inv[p].fileHash,
                          ![p].pc = "vt_get"]

\* extractTaskId(filePath, metadata), called directly.
CallExtractTaskId(p, filePath, metadata) ==
  /\ inv[p].pc = "idle"
  /\ inv' = [inv EXCEPT ![p] = [Idle EXCEPT !.pc = "resolve", !.entry = "extractTaskId",
                                  !.filePath = Some(filePath),
                                  !.metadata = Some(metadata)]]
  /\ UNCHANGED <<tasks, file_hashes, objectMetadata, tmpdir, clock, ledger, updates>>

\* sendToExternalSystem(fileHash, filePath, metadata), called directly.
CallSendToExternalSystem(p, fileHash, filePath, metadata) ==
  /\ inv[p].pc = "idle"
  /\ inv' = [inv EXCEPT ![p] = [Idle EXCEPT !.pc = "resolve",
                                  !.entry = "sendToExternalSystem",
                                  !.fileHash = Some(fileHash),
                                  !.filePath = Some(filePath),
                                  !.metadata = Some(metadata)]]
  /\ UNCHANGED <<tasks, file_hashes, objectMetadata, tmpdir, clock, ledger, updates>>

\* Faulty variant: the error of the query is thrown to sendToExternalSystem,
\* whose catch block turns it into an outcome.
MsgQueryError == "Error during verification: task store query failed"

QueryErrorThrown(p) ==
  inv' = [inv EXCEPT ![p].outcome = Some(Failure(MsgQueryError)),
                     ![p].queried = "failed", ![p].pc = AfterVerification(p)]

\* The query throws: the catch block of extractTaskId returns null.
QueryErrorCaught(p) == Resolved(p, Absent, "failed")

\* extractTaskId, and the code of sendToExternalSystem that follows its return.
ExtractTaskId(p) ==
  /\ inv[p].pc = "resolve"
  /\ LET local == LocalTaskId(inv[p].filePath[1], inv[p].metadata[1]) IN
       \/ /\ local # Absent \/ ~DbAvailable
          /\ Resolved(p, local, "no")
       \/ /\ local = Absent /\ DbAvailable       \* the query throws
          /\ QueryErrorCaught(p)
       \/ /\ local = Absent /\ DbAvailable       \* the query answers
          /\ IF MostRecentCompleted = {} THEN Resolved(p, Absent, "answered")
             ELSE \E t \in MostRecentCompleted : Resolved(p, Some(t), "answered")
  /\ UNCHANGED <<tasks, file_hashes, objectMetadata, tmpdir, clock, ledger, updates>>

\* ------------------------------------------------- processLogFileUpload

\* The objects of the bucket: name -> bytes.
ObjTask1 == <<"l", "o", "g", "s", "/", "t", "a", "s", "k", "-", "T", "1", "-", "a", ".", "l", "o", "g">>
ObjNoIdA == <<"l", "o", "g", "s", "/", "a", "/", "g", ".", "l", "o", "g">>
ObjNoIdB == <<"l", "o", "g", "s", "/", "b", "/", "g", ".", "l", "o", "g">>
ObjOther == <<"t", "m", "p", "/", "t", "a", "s", "k", "-", "T", "1", ".", "l", "o", "g">>

Bucket ==
  (ObjTask1 :> "bytes1") @@ (ObjNoIdA :> "bytes3")
    @@ (ObjNoIdB :> "bytes4") @@ (ObjOther :> "bytes5")

\* crypto.createHash('sha256').update(fileBuffer).digest('hex')
Sha256(bytes) == <<"sha256", bytes>>

\* path.basename(filePath)
Basename(str) ==
  LET slashes == {i \in 1..Len(str) : str[i] = "/"} IN
    IF slashes = {} THEN str
    ELSE SubSeq(str, (CHOOSE i \in slashes : \A j \in slashes : j <= i) + 1, Len(str))

FileExists(name) == name \in DOMAIN tmpdir

RemoveFile(name) == [f \in DOMAIN tmpdir \ {name} |-> tmpdir[f]]

\* What an invocation of the handler ends with: null, the file hash (see
\* Sha256), or the error it throws to the trigger.
ReturnedNull == <<"null", "">>

Threw(error) == <<"threw", error>>

ErrDownload == "download failed"
ErrNoEntry == "ENOENT: no such file or directory"
ErrInsert == "file_hashes.add failed"
ErrSetMetadata == "setMetadata failed"

\* The handler ends with result (its return value, or the error it throws);
\* its locals go out of scope.  The event (filePath), the task id it resolved and the outcome
\* of sendToExternalSystem are kept as the record of the invocation.
Ended(p, result) ==
  [Idle EXCEPT !.pc = "done", !.entry = inv[p].entry, !.filePath = inv[p].filePath,
               !.taskId = inv[p].taskId, !.queried = inv[p].queried,
               !.outcome = inv[p].outcome, !.returned = result]

\* Faulty variant: the catch block rethrows without removing the file.
RethrowKeepingFile(p, error) ==
  /\ tmpdir' = tmpdir
  /\ inv' = [inv EXCEPT ![p] = Ended(p, Some(Threw(error)))]

\* The catch block: remove the temporary file if there is one, and rethrow.
Rethrow(p, error) ==
  /\ tmpdir' = RemoveFile(inv[p].fileName[1])
  /\ inv' = [inv EXCEPT ![p] = Ended(p, Some(Threw(error)))]

\* Faulty variant: the handler processes every object, whatever its path.
OnFinalizeUnfiltered(p, name) ==
  /\ inv[p].pc = "idle"
  /\ inv' = [inv EXCEPT ![p] = [Idle EXCEPT !.pc = "download",
                                  !.entry = "processLogFileUpload",
                                  !.filePath = Some(name),
                                  !.fileName = Some(Basename(name)),
                                  !.metadata = Some([taskId |-> Absent])]]
  /\ UNCHANGED <<tasks, file_hashes, objectMetadata, tmpdir, clock, ledger, updates>>

\* The trigger delivers the object-finalized event of the object named name.
OnFinalize(p, name) ==
  /\ inv[p].pc = "idle"
  /\ IF ~StartsWith(name, LogsPrefix)
     THEN inv' = [inv EXCEPT ![p] = [Idle EXCEPT !.pc = "done",
                                       !.entry = "processLogFileUpload",
                                       !.filePath = Some(name),
                                       !.returned = Some(ReturnedNull)]]
     ELSE inv' = [inv EXCEPT ![p] = [Idle EXCEPT !.pc = "download",
                                       !.entry = "processLogFileUpload",
                                       !.filePath = Some(name),
                                       !.fileName = Some(Basename(name)),
                                       !.metadata = Some([taskId |-> Absent])]]
  /\ UNCHANGED <<tasks, file_hashes, objectMetadata, tmpdir, clock, ledger, updates>>

\* await file.download({destination: tempFilePath})
Download(p) ==
  /\ inv[p].pc = "download"
  /\ \/ Rethrow(p, ErrDownload)
     \/ /\ tmpdir' = [f \in DOMAIN tmpdir \cup {inv[p].fileName[1]} |->
                        IF f = inv[p].fileName[1] THEN Bucket[inv[p].filePath[1]]
                        ELSE tmpdir[f]]
        /\ inv' = [inv EXCEPT ![p].pc = "hash"]
  /\ UNCHANGED <<tasks, file_hashes, objectMetadata, clock, ledger, updates>>

\* Faulty variant: a file that cannot be read is hashed as an empty one.
HashOfMissingFile(p) ==
  /\ inv[p].pc = "hash"
  /\ inv' = [inv EXCEPT ![p].fileHash =
                           IF FileExists(inv[p].fileName[1])
                           THEN Some(Sha256(tmpdir[inv[p].fileName[1]]))
                           ELSE Some(Sha256("")),
                         ![p].pc = "record"]
  /\ UNCHANGED <<tasks, file_hashes, objectMetadata, tmpdir, clock, ledger, updates>>

\* fs.readFileSync(tempFilePath) and the digest, once the download has resolved.
Hash(p) ==
  /\ inv[p].pc = "hash"
  /\ IF FileExists(inv[p].fileName[1])
     THEN /\ inv' = [inv EXCEPT ![p].fileHash = Some(Sha256(tmpdir[inv[p].fileName[1]])),
                                ![p].pc = "record"]
          /\ UNCHANGED tmpdir
     ELSE Rethrow(p, ErrNoEntry)
  /\ UNCHANGED <<tasks, file_hashes, objectMetadata, clock, ledger, updates>>

\* Faulty variant: the handler goes on to tagging without the insert.
RecordSkipped(p) ==
  /\ inv[p].pc = "record"
  /\ inv' = [inv EXCEPT ![p].pc = "tag"]
  /\ UNCHANGED <<tasks, file_hashes, objectMetadata, tmpdir, clock, ledger, updates>>

\* await admin.firestore().collection('file_hashes').add(fileMetadata)
Record(p) ==
  /\ inv[p].pc = "record"
  /\ \/ /\ Rethrow(p, ErrInsert)
        /\ UNCHANGED file_hashes
     \/ /\ file_hashes' = file_hashes \cup
                             {[id |-> p,      \* the id the store generates
                               filePath |-> inv[p].filePath[1],
                               fileName |-> inv[p].fileName[1],
                               sha256Hash |-> inv[p].fileHash[1]]}
        /\ inv' = [inv EXCEPT ![p].pc = "tag"]
        /\ UNCHANGED tmpdir
  /\ UNCHANGED <<tasks, objectMetadata, clock, ledger, updates>>

\* await file.setMetadata({metadata: {sha256Hash: fileHash}})
Tag(p) ==
  /\ inv[p].pc = "tag"
  /\ \/ /\ Rethrow(p, ErrSetMetadata)
        /\ UNCHANGED objectMetadata
     \/ /\ objectMetadata' =
             [o \in DOMAIN objectMetadata \cup {inv[p].filePath[1]} |->
                IF o = inv[p].filePath[1] THEN inv[p].fileHash[1] ELSE objectMetadata[o]]
        /\ inv' = [inv EXCEPT ![p].pc = "resolve"]
        /\ UNCHANGED tmpdir
  /\ UNCHANGED <<tasks, file_hashes, clock, ledger, updates>>

\* fs.unlinkSync(tempFilePath) and return fileHash, once sendToExternalSystem
\* has returned; unlinkSync throws when the file is not there.
Cleanup(p) ==
  /\ inv[p].pc = "cleanup"
  /\ IF FileExists(inv[p].fileName[1])
     THEN /\ tmpdir' = RemoveFile(inv[p].fileName[1])
          /\ inv' = [inv EXCEPT ![p] = Ended(p, inv[p].fileHash)]
     ELSE Rethrow(p, ErrNoEntry)
  /\ UNCHANGED <<tasks, file_hashes, objectMetadata, clock, ledger, updates>>

\* ------------------------------------------------------- specifications

InitShared ==
  /\ file_hashes = {}
  /\ objectMetadata = <<>>
  /\ tmpdir = <<>>
  /\ clock = 3
  /\ ledger = {}
  /\ updates = {}
  /\ inv = [p \in Procs |-> Idle]

\* The collection that holds the existing documents of docs.
Collection(docs) == [t \in {u \in DOMAIN docs : docs[u].exists} |-> docs[t]]

\* The upload pipeline: object-finalized events, handled concurrently.
Init ==
  /\ InitShared
  /\ \E d1 \in {PendingTask, CompletedTask(1), CompletedTask(2)},
        d2 \in {NoDoc, CompletedTask(1), CompletedTask(2)} :
       tasks = Collection((T1 :> d1) @@ (T2 :> d2))

Next ==
  \E p \in Procs :
    \/ \E name \in DOMAIN Bucket : OnFinalize(p, name)
    \/ Download(p)
    \/ Hash(p)
    \/ Record(p)
    \/ Tag(p)
    \/ ExtractTaskId(p)
    \/ VerifyTaskGet(p)
    \/ CreateMockTransaction(p)
    \/ VerifyTaskUpdate(p)
    \/ VerifyTaskReturn(p)
    \/ Cleanup(p)

Spec == Init /\ [][Next]_vars

\* Direct calls of verifyTask, with any result and report hash, run concurrently.
InitVerify ==
  /\ InitShared
  /\ \E d1 \in {NoDoc, PendingTask, CompletedTask(1), PresetTask(1)} :
       tasks = Collection((T1 :> d1) @@ (T2 :> CompletedTask(2)))

NextVerify ==
  \E p \in Procs :
    \/ \E taskId \in TaskIds, result \in BOOLEAN, reportHash \in Hashes :
         CallVerifyTask(p, taskId, result, reportHash)
    \/ VerifyTaskGet(p)
    \/ CreateMockTransaction(p)
    \/ VerifyTaskUpdate(p)
    \/ VerifyTaskReturn(p)

SpecVerify == InitVerify /\ [][NextVerify]_vars

\* Direct calls of sendToExternalSystem, run concurrently: task resolution
\* followed by verifyTask(taskId, true, fileHash).
InitSend ==
  /\ InitShared
  /\ \E docs \in {<<CompletedTask(1), CompletedTask(2)>>,
                   <<PendingTask, CompletedTask(2)>>,
                   <<NoDoc, NoDoc>>} :
       tasks = Collection((T1 :> docs[1]) @@ (T2 :> docs[2]))

NextSend ==
  \E p \in Procs :
    \/ \E fileHash \in Hashes, filePath \in {ObjTask1, ObjNoIdA} :
         CallSendToExternalSystem(p, fileHash, filePath, [taskId |-> Absent])
    \/ ExtractTaskId(p)
    \/ VerifyTaskGet(p)
    \/ CreateMockTransaction(p)
    \/ VerifyTaskUpdate(p)
    \/ VerifyTaskReturn(p)

SpecSend == InitSend /\ [][NextSend]_vars

\* extractTaskId applied to a path and a metadata object, over the task stores.
FilePaths ==
  {ObjTask1, ObjNoIdA, ObjOther,
   <<"l", "o", "g", "s", "/", "t", "a", "s", "k", "-", "T", "9", ".", "l", "o", "g">>,
   <<"l", "o", "g", "s", "/", "t", "a", "s", "k", "-", "/", "t", "a", "s", "k", "-", "T", "2", "x">>,
   <<"l", "o", "g", "s", "/", "m", "u", "l", "t", "i", "t", "a", "s", "k", "-", "T", "2", "_", "b">>}

Metadatas ==
  {[taskId |-> Absent], [taskId |-> Some(<<>>)], [taskId |-> Some(T1)],
   [taskId |-> Some(T9)]}

InitResolve ==
  /\ InitShared
  /\ \E d1 \in {NoDoc, PendingTask, CompletedTask(1), CompletedTask(2), PresetTask(2)},
        d2 \in {NoDoc, PendingTask, CompletedTask(1), CompletedTask(2)} :
       tasks = Collection((T1 :> d1) @@ (T2 :> d2))

NextResolve ==
  \/ \E filePath \in FilePaths, metadata \in Metadatas :
       CallExtractTaskId(1, filePath, metadata)
  \/ ExtractTaskId(1)

SpecResolve == InitResolve /\ [][NextResolve]_vars

\* ================================================================ claims

Done(p) == inv[p].pc = "done"

HasOutcome(p) == inv[p].outcome # Absent

Succeeded(p) == HasOutcome(p) /\ inv[p].outcome[1].success

\* The task updates applied for invocation p.
UpdatesBy(p) == {u \in updates : u.by = p}

\* Invocation p takes the step that ends its task-store read with an answer
\* (the read request did not fail).
GetAnswered(p) ==
  /\ inv[p].pc = "vt_get"
  /\ inv'[p].pc # "vt_get"
  /\ inv'[p].outcome # Some(Failure(MsgStoreError))

\* The document the read of invocation p returns in the current state.
DocRead(p) == TaskGet(inv[p].taskId[1])

\* ---- C1
\* p and q are verifyTask invocations on task t that both found it eligible
\* (both got as far as the ledger call) and met no task-store failure.
RacedOn(p, q, t) ==
  /\ p # q /\ Done(p) /\ Done(q)
  /\ inv[p].taskId = Some(t) /\ inv[q].taskId = Some(t)
  /\ \E x \in ledger : x.by = p
  /\ \E x \in ledger : x.by = q
  /\ inv[p].outcome[1].message # MsgStoreError
  /\ inv[q].outcome[1].message # MsgStoreError

\* C1: of two concurrent verifyTask invocations on the same eligible task,
\* exactly one ends with success:true, the other ends with the 'already
\* verified' rejection and a null transactionId, and only one of them writes
\* the task's verification fields.
C1_ExactlyOneRecorded ==
  \A p, q \in Procs : \A t \in TaskIds :
    RacedOn(p, q, t) =>
      /\ Succeeded(p) # Succeeded(q)
      /\ ~Succeeded(p) => inv[p].outcome[1] = Failure(MsgAlreadyVerified)
      /\ Cardinality({u \in updates : u.taskId = t}) = 1

\* ---- C2
\* C2: two deliveries of the same object-finalized event under logs/ set the
\* verification fields of at most one task, and at most one of them gets
\* success:true with a settlement transaction id.
C2_RedeliveryIdempotent ==
  \A p, q \in Procs :
    (/\ p # q /\ Done(p) /\ Done(q)
     /\ inv[p].entry = "processLogFileUpload"
     /\ inv[p].filePath = inv[q].filePath
     /\ StartsWith(inv[p].filePath[1], LogsPrefix))
    => /\ Cardinality({u.taskId : u \in UpdatesBy(p) \cup UpdatesBy(q)}) <= 1
       /\ ~(Succeeded(p) /\ Succeeded(q))

\* ---- C3
\* C3: once a task's verificationResult is set, no step changes that task's
\* verification fields or status.
C3_WriteOnce ==
  [][\A t \in DOMAIN tasks :
       tasks[t].verificationResult # Absent => tasks'[t] = tasks[t]]_vars

\* ---- C4
\* C4: a verifyTask run that reads a task whose verificationResult
\* is set ends with the 'already verified' rejection (success:false, that
\* message, null transactionId), with no ledger call and no task update.
C4_AlreadyVerifiedMessage ==
  [][\A p \in Procs :
       (GetAnswered(p) /\ DocRead(p).exists /\ DocRead(p).verificationResult # Absent)
       => /\ inv'[p].outcome = Some(Failure(MsgAlreadyVerified))
          /\ tasks' = tasks /\ ledger' = ledger /\ updates' = updates]_vars

\* ---- C5
\* C5: a verifyTask run that reads a task that is absent or whose status is not
\* 'completed' ends there with success:false and a null transactionId, creates
\* no settlement transaction and changes no task document.
C5_IneligibleRejected ==
  [][\A p \in Procs :
       (GetAnswered(p) /\ (~DocRead(p).exists \/ DocRead(p).status # "completed"))
       => /\ inv'[p].outcome # Absent
          /\ ~inv'[p].outcome[1].success
          /\ inv'[p].outcome[1].transactionId = Absent
          /\ inv'[p].pc = "done"
          /\ tasks' = tasks /\ ledger' = ledger /\ updates' = updates]_vars

\* A run on a pending task was rejected; it made no ledger call and the task is
\* still pending.
C5_Witness ==
  \E p \in Procs : \E t \in DOMAIN tasks :
    /\ Done(p) /\ inv[p].taskId = Some(t)
    /\ inv[p].outcome = Some(Failure(MsgNotCompleted))
    /\ tasks[t] = PendingTask
    /\ \A x \in ledger : x.by # p

\* ---- C6
\* C6: a task's status changes only from completed to verified or rejected; a
\* verified or rejected task keeps its status.
C6_StatusForward ==
  [][\A t \in DOMAIN tasks :
       tasks'[t].status # tasks[t].status
       => tasks[t].status = "completed" /\ tasks'[t].status \in {"verified", "rejected"}]_vars

\* ---- C7
\* C7: an invocation of verifyTask or sendToExternalSystem that ends with
\* success:false has made no task update.
C7_FailureLeavesTask ==
  \A p \in Procs : (HasOutcome(p) /\ ~Succeeded(p)) => UpdatesBy(p) = {}

\* A sendToExternalSystem call failed at the task update, after the ledger
\* call; the task is still completed and unverified.
C7_Witness ==
  \E p \in Procs : \E t \in DOMAIN tasks :
    /\ inv[p].entry = "sendToExternalSystem" /\ Done(p)
    /\ inv[p].taskId = Some(t)
    /\ inv[p].outcome = Some(Failure(MsgStoreError))
    /\ \E x \in ledger : x.by = p
    /\ tasks[t].status = "completed" /\ tasks[t].verificationResult = Absent

\* ---- C8
\* C8: an outcome has success:true exactly when its invocation made the task
\* update, and then its transactionId is the verificationTx stored on the task;
\* otherwise it has success:false and a null transactionId.
C8_OutcomeMatchesTask ==
  \A p \in Procs :
    HasOutcome(p) =>
      /\ Succeeded(p) <=> UpdatesBy(p) # {}
      /\ Succeeded(p) =>
           inv[p].outcome[1].transactionId = tasks[inv[p].taskId[1]].verificationTx
      /\ ~Succeeded(p) => inv[p].outcome[1].transactionId = Absent

\* ---- C9
\* r is the token of the first task-<alphanumeric> in str: it follows the
\* leftmost "task-" that has an alphanumeric after it, and runs to the first
\* character that is not alphanumeric.
IsFirstToken(str, r) ==
  \E i \in 1..Len(str) :
    /\ Len(r) >= 1
    /\ i + 4 + Len(r) <= Len(str)
    /\ SubSeq(str, i, i + 4 + Len(r)) = TaskPrefix \o r
    /\ \A k \in 1..Len(r) : IsAlnum(r[k])
    /\ i + 4 + Len(r) = Len(str) \/ ~IsAlnum(str[i + 5 + Len(r)])
    /\ \A j \in 1..(i - 1) :
         ~(j + 5 <= Len(str) /\ SubSeq(str, j, j + 4) = TaskPrefix /\ IsAlnum(str[j + 5]))

HasToken(str) == \E i \in 1..Len(str), n \in 1..Len(str) :
                   i + 4 + n <= Len(str) /\ IsFirstToken(str, SubSeq(str, i + 5, i + 4 + n))

\* C9: extractTaskId returns a non-empty metadata.taskId verbatim, whatever
\* the path; without one, the first task-<alphanumeric> token of the path;
\* and it queries the task store only when there is neither.
C9_ResolutionOrder ==
  \A p \in Procs :
    (Done(p) /\ inv[p].entry = "extractTaskId") =>
      LET path == inv[p].filePath[1]
          given == inv[p].metadata[1].taskId
          nonEmpty == given # Absent /\ Len(given[1]) > 0
      IN /\ nonEmpty => inv[p].taskId = given /\ inv[p].queried = "no"
         /\ (~nonEmpty /\ HasToken(path))
              => /\ inv[p].taskId # Absent
                 /\ IsFirstToken(path, inv[p].taskId[1])
                 /\ inv[p].queried = "no"
         /\ (~nonEmpty /\ ~HasToken(path)) => inv[p].queried # "no"

\* metadata.taskId = T1 won over a path that holds task-T2x, and a path token
\* was returned while no task was completed.
C9_Witness ==
  \E p \in Procs :
    /\ Done(p) /\ inv[p].entry = "extractTaskId"
    /\ inv[p].metadata[1].taskId = Some(T1)
    /\ HasToken(inv[p].filePath[1])
    /\ ~IsFirstToken(inv[p].filePath[1], T1)
    /\ inv[p].taskId = Some(T1)

\* ---- C10
\* C10: when neither the metadata nor the path gives a task id, the task
\* extractTaskId returns is completed and no completed task has a greater
\* completedAt; when the query answers it returns such a task if a task is
\* completed, and null if none is.
C10_MostRecentCompleted ==
  \A p \in Procs :
    (Done(p) /\ inv[p].entry = "extractTaskId" /\ inv[p].queried # "no") =>
      LET completed == {t \in DOMAIN tasks : tasks[t].status = "completed"} IN
        /\ inv[p].taskId # Absent =>
             /\ inv[p].taskId[1] \in completed
             /\ \A u \in completed :
                  tasks[u].completedAt[1] <= tasks[inv[p].taskId[1]].completedAt[1]
        /\ inv[p].queried = "answered" => (inv[p].taskId = Absent <=> completed = {})

\* The query returned T2, completed later than the completed task T1.
C10_Witness ==
  \E p \in Procs :
    /\ Done(p) /\ inv[p].entry = "extractTaskId" /\ inv[p].queried = "answered"
    /\ inv[p].taskId = Some(T2)
    /\ T1 \in DOMAIN tasks /\ tasks[T1].status = "completed"
    /\ tasks[T1].completedAt[1] < tasks[T2].completedAt[1]

\* ---- C11
\* The positions of an invocation inside verifyTask.
InVerifyTask == {"vt_get", "vt_settle", "vt_update", "vt_return"}

\* C11: when the query of extractTaskId fails, or extractTaskId resolves no task
\* id, extractTaskId returns null and sendToExternalSystem returns success:false
\* with the 'could not determine task ID' message and a null transactionId,
\* without entering verifyTask: the step changes no task and creates no
\* settlement transaction, and the invocation has none to its name.
C11_UnresolvedRejected ==
  [][\A p \in Procs :
       (/\ inv[p].pc = "resolve" /\ inv'[p].pc # "resolve"
        /\ inv[p].entry # "extractTaskId"
        /\ inv'[p].queried = "failed" \/ inv'[p].taskId = Absent)
       => /\ inv'[p].taskId = Absent
          /\ inv'[p].outcome = Some(Failure(MsgNoTaskId))
          /\ inv'[p].pc \notin InVerifyTask
          /\ tasks' = tasks /\ ledger' = ledger /\ updates' = updates
          /\ \A x \in ledger' : x.by # p
          /\ \A u \in updates' : u.by # p]_vars

\* The query failed while a completed, unverified task was there to be found:
\* the call was rejected, and left the task and the ledger alone.
C11_Witness ==
  \E p \in Procs : \E t \in DOMAIN tasks :
    /\ Done(p) /\ inv[p].entry = "sendToExternalSystem"
    /\ inv[p].queried = "failed" /\ inv[p].taskId = Absent
    /\ inv[p].outcome = Some(Failure(MsgNoTaskId))
    /\ tasks[t].status = "completed" /\ tasks[t].verificationResult = Absent
    /\ \A x \in ledger : x.by # p

\* ---- C12
\* C12: a failure of file.setMetadata, after the provenance record has been
\* inserted, does not end the invocation: every step that leaves the tagging
\* step goes on to task resolution, and none throws the tagging error to the
\* trigger.
C12_TaggingFailureNotFatal ==
  [][\A p \in Procs :
       (inv[p].pc = "tag" /\ inv'[p].pc # "tag")
       => /\ inv'[p].pc = "resolve"
          /\ inv'[p].returned # Some(Threw(ErrSetMetadata))]_vars

\* ---- C13
\* Invocation p of the handler, on an object under logs/, ends in this step.
HandlerEnds(p) ==
  /\ inv[p].pc # "done" /\ inv'[p].pc = "done"
  /\ inv'[p].entry = "processLogFileUpload"
  /\ StartsWith(inv'[p].filePath[1], LogsPrefix)

\* C13: when an invocation of processLogFileUpload on an object under logs/
\* ends, by returning or by throwing, no file is left at the temporary path it
\* downloaded to.
C13_TempCopyRemoved ==
  [][\A p \in Procs :
       HandlerEnds(p) => Basename(inv'[p].filePath[1]) \notin DOMAIN tmpdir']_vars

\* An invocation failed at the tagging step, with its copy downloaded and its
\* provenance record inserted, and its temporary path is free.
C13_Witness ==
  \E p \in Procs :
    /\ Done(p) /\ inv[p].returned = Some(Threw(ErrSetMetadata))
    /\ \E r \in file_hashes : r.id = p
    /\ Basename(inv[p].filePath[1]) \notin DOMAIN tmpdir

\* ---- C14
\* The download of invocation p fails in this step: the step leaves no file at
\* its temporary path.
DownloadFails(p) ==
  /\ inv[p].pc = "download" /\ inv'[p].pc # "download"
  /\ inv[p].fileName[1] \notin DOMAIN tmpdir'

\* The file read of invocation p fails in this step: there is no file at its
\* temporary path.
ReadFails(p) ==
  /\ inv[p].pc = "hash" /\ inv'[p].pc # "hash"
  /\ ~FileExists(inv[p].fileName[1])

\* C14: when the download or the file read of an invocation fails, the
\* invocation ends there by throwing that error to the trigger; it has
\* inserted no provenance record, set no object metadata, resolved no task,
\* created no settlement transaction and changed no task.
C14_SourceUnavailable ==
  [][\A p \in Procs :
       (DownloadFails(p) \/ ReadFails(p))
       => /\ inv'[p].pc = "done"
          /\ inv'[p].returned =
               Some(Threw(IF inv[p].pc = "download" THEN ErrDownload ELSE ErrNoEntry))
          /\ file_hashes' = file_hashes /\ objectMetadata' = objectMetadata
          /\ tasks' = tasks /\ ledger' = ledger /\ updates' = updates
          /\ \A r \in file_hashes' : r.id # p
          /\ inv'[p].queried = "no" /\ inv'[p].taskId = Absent
          /\ inv'[p].outcome = Absent
          /\ \A x \in ledger' : x.by # p
          /\ \A u \in updates' : u.by # p]_vars

\* The file read of an invocation failed (its copy was removed by another
\* invocation that uses the same temporary path): it threw, and left no
\* provenance record and no task resolution.
C14_Witness ==
  \E p \in Procs :
    /\ Done(p) /\ inv[p].entry = "processLogFileUpload"
    /\ inv[p].returned = Some(Threw(ErrNoEntry))
    /\ \A r \in file_hashes : r.id # p
    /\ inv[p].taskId = Absent /\ inv[p].outcome = Absent

\* ---- C15
BusinessRejections ==
  {Failure(MsgNoTaskId), Failure(MsgNotFound), Failure(MsgNotCompleted),
   Failure(MsgAlreadyVerified)}

\* C15: an invocation of the handler whose verification ended with a business
\* rejection (task id unresolved, task absent, task not completed, already
\* verified) returns the file hash; and an invocation of the handler throws
\* only on a failure of the download or of the provenance insert.
C15_RejectionsAbsorbed ==
  \A p \in Procs :
    (Done(p) /\ inv[p].entry = "processLogFileUpload") =>
      /\ (inv[p].outcome # Absent /\ inv[p].outcome[1] \in BusinessRejections)
           => inv[p].returned[1][1] = "sha256"
      /\ inv[p].returned[1][1] = "threw"
           => inv[p].returned[1][2] \in {ErrDownload, ErrInsert}

\* ---- C16
\* C16: an invocation of the handler for an object whose path does not start
\* with logs/ has returned null, and has downloaded nothing, inserted no
\* provenance record, tagged no object, resolved, read or updated no task and
\* created no settlement transaction.
C16_OtherPathsIgnored ==
  \A p \in Procs :
    (inv[p].entry = "processLogFileUpload" /\ ~StartsWith(inv[p].filePath[1], LogsPrefix))
    => /\ Done(p) /\ inv[p].returned = Some(ReturnedNull)
       /\ Basename(inv[p].filePath[1]) \notin DOMAIN tmpdir
       /\ \A r \in file_hashes : r.id # p /\ r.filePath # inv[p].filePath[1]
       /\ inv[p].filePath[1] \notin DOMAIN objectMetadata
       /\ inv[p].queried = "no" /\ inv[p].taskId = Absent /\ inv[p].outcome = Absent
       /\ \A x \in ledger : x.by # p
       /\ \A u \in updates : u.by # p

\* The event of tmp/task-T1.log was ignored although its name holds the id of
\* T1, a completed and unverified task.
C16_Witness ==
  \E p \in Procs :
    /\ Done(p) /\ inv[p].filePath = Some(ObjOther)
    /\ inv[p].returned = Some(ReturnedNull)
    /\ tasks[T1].status = "completed" /\ tasks[T1].verificationResult = Absent
    /\ file_hashes = {} /\ ledger = {}

\* ---- C17
\* C17: in every state, each task has its four verification fields either all
\* absent or all present, and has status verified or rejected exactly when
\* they are present.
C17_FieldsTogether ==
  \A t \in DOMAIN tasks :
    /\ \/ \A i \in 1..4 : VerificationFields(tasks[t])[i] = Absent
       \/ \A i \in 1..4 : VerificationFields(tasks[t])[i] # Absent
    /\ tasks[t].status \in {"verified", "rejected"}
         <=> tasks[t].verificationResult # Absent

\* A task has been verified, with all four fields set, while another
\* invocation is about to read it.
C17_Witness ==
  \E p \in Procs : \E t \in DOMAIN tasks :
    /\ inv[p].pc = "vt_get" /\ inv[p].taskId = Some(t)
    /\ tasks[t].status = "verified"
    /\ \A i \in 1..4 : VerificationFields(tasks[t])[i] # Absent

\* ---- C18
\* C18: of two invocations of the handler on different objects under logs/,
\* none reads, overwrites or deletes the local copy of the other: each records
\* the hash of the bytes of its own object, and no invocation fails for want of
\* its file.
C18_CopyOwnedByOne ==
  /\ \A r \in file_hashes : r.sha256Hash = Sha256(Bucket[r.filePath])
  /\ \A p \in Procs :
       (/\ Done(p) /\ inv[p].entry = "processLogFileUpload"
        /\ \A q \in Procs \ {p} : inv[q].filePath # inv[p].filePath)
       => inv[p].returned # Some(Threw(ErrNoEntry))

\* ---- C19
\* C19: every settlement transaction id created by an invocation that has
\* ended is the verificationTx stored on the task it was created for.
C19_TransactionRecorded ==
  \A x \in ledger :
    Done(x.by) => /\ x.taskId \in DOMAIN tasks
                  /\ tasks[x.taskId].verificationTx = Some(x.tx)

\* ---- C20
\* The positions of a handler invocation after the provenance insert, and
\* after the tagging.
PastRecord ==
  {"tag", "resolve", "vt_get", "vt_settle", "vt_update", "vt_return", "cleanup"}

PastTag == PastRecord \ {"tag"}

\* Invocation p has got as far as task resolution.
ReachedResolution(p) ==
  \/ inv[p].pc \in PastTag
  \/ inv[p].queried # "no" \/ inv[p].taskId # Absent \/ inv[p].outcome # Absent

\* C20: a handler invocation inserts its provenance record, with the hash it
\* computed, before it tags the object; tags before it resolves the task;
\* resolves before it reads the task; reads before the ledger call; and calls
\* the ledger before it updates the task.  So every task whose
\* verificationReportHash is h comes with a provenance record whose
\* sha256Hash is h.
C20_StepOrder ==
  /\ \A p \in Procs :
       inv[p].entry = "processLogFileUpload" =>
         /\ inv[p].pc \in {"download", "hash"} => inv[p].fileHash = Absent
         /\ inv[p].pc \in {"download", "hash", "record"} =>
              \A r \in file_hashes : r.id # p
         /\ inv[p].pc \in PastRecord =>
              \E r \in file_hashes : r.id = p /\ Some(r.sha256Hash) = inv[p].fileHash
         /\ ReachedResolution(p) =>
              /\ \E r \in file_hashes : r.id = p
              /\ inv[p].filePath[1] \in DOMAIN objectMetadata
         /\ inv[p].pc \in InVerifyTask => inv[p].taskId # Absent
         /\ inv[p].pc \in {"vt_get", "vt_settle"} => \A x \in ledger : x.by # p
         /\ (\E x \in ledger : x.by = p) =>
              /\ inv[p].taskId # Absent
              /\ \A x \in ledger : x.by = p => x.taskId = inv[p].taskId[1]
         /\ inv[p].pc \in {"vt_get", "vt_settle", "vt_update"} => UpdatesBy(p) = {}
         /\ UpdatesBy(p) # {} => \E x \in ledger : x.by = p
  /\ \A t \in DOMAIN tasks :
       tasks[t].verificationReportHash # Absent
       => \E r \in file_hashes : Some(r.sha256Hash) = tasks[t].verificationReportHash

\* A task carries the report hash of an upload whose provenance record is in
\* file_hashes, written by an invocation that went through every step.
C20_Witness ==
  \E p \in Procs : \E t \in DOMAIN tasks : \E r \in file_hashes :
    /\ Done(p) /\ inv[p].entry = "processLogFileUpload"
    /\ inv[p].taskId = Some(t) /\ UpdatesBy(p) # {}
    /\ r.id = p /\ tasks[t].verificationReportHash = Some(r.sha256Hash)
    /\ \E x \in ledger : x.by = p /\ tasks[t].verificationTx = Some(x.tx)
    /\ inv[p].filePath[1] \in DOMAIN objectMetadata

\* ---- C21
\* C21: every task the upload pipeline has updated has verificationResult
\* true and status verified, and no task has status rejected or
\* verificationResult false.
C21_AlwaysSettlesTrue ==
  \A t \in DOMAIN tasks :
    /\ tasks[t].status # "rejected"
    /\ tasks[t].verificationResult # Some(FALSE)
    /\ (\E u \in updates : u.taskId = t)
         => /\ tasks[t].verificationResult = Some(TRUE)
            /\ tasks[t].status = "verified"

\* An invocation of the handler has updated a task, which is verified with
\* result true and the hash of the upload.
C21_Witness ==
  \E p \in Procs : \E t \in DOMAIN tasks :
    /\ inv[p].entry = "processLogFileUpload" /\ Done(p)
    /\ [by |-> p, taskId |-> t] \in updates
    /\ tasks[t].verificationResult = Some(TRUE) /\ tasks[t].status = "verified"
    /\ \E r \in file_hashes : r.id = p /\ tasks[t].verificationReportHash = Some(r.sha256Hash)

====
